---- MODULE Spec2Model ----
(***************************************************************************)
(* Model of rust_indexer (src/main.rs): a one-shot job that fetches the    *)
(* customer, order and item tables, nests items under orders and orders    *)
(* under customers with two HashMap groupings and two rayon parallel maps, *)
(* and sends the nested customers to Elasticsearch in one bulk request.    *)
(*                                                                         *)
(* The program compares ids only for equality (HashMap keys), so the rows  *)
(* of a table are numbered 1..n in fetch order (ORDER BY primary key) and  *)
(* a foreign key ranges over one value more than the parent table can      *)
(* hold, which is the key of no parent.                                    *)
(***************************************************************************)
EXTENDS Integers, Sequences, FiniteSets, TLC

VARIABLES
    pc,             \* position in main
    exit,           \* how main ended: "none", "ok", "err", "panic"
    abort,          \* what ended the run early, "none" otherwise
    recs,           \* the rows a fetch_all_* got from its query, while it converts them
    custs,          \* the Result of fetch_all_customers: "none", "Ok", "Err"
    ords,           \* the Result of fetch_all_orders
    itms,           \* the Result of fetch_all_items
    customer_list,  \* main.rs:44
    order_list,     \* main.rs:50
    items_list,     \* main.rs:56
    items_map,      \* main.rs:63
    slots,          \* the result slots of the running par_iter().map().collect()
    completion,     \* the indices of the running parallel map, in completion order
    orders,         \* main.rs:68
    orders_map,     \* main.rs:71
    customers,      \* main.rs:76
    body,           \* bulk_insert_into_el: the Vec<JsonBody> and its capacity
    requests,       \* the bulk requests sent to the destination
    response,       \* the destination's answer to the last request
    stdout          \* the success flags printed (main.rs:125)

vars == <<pc, exit, abort, recs, custs, ords, itms, customer_list, order_list,
          items_list, items_map, slots, completion, orders, orders_map,
          customers, body, requests, response, stdout>>

\* Bounds of the model: the most rows a table holds.
MaxCust == 2
MaxOrd == 2
MaxItem == 2

\* The batch-size hint main passes to bulk_insert_into_el.
BatchSizeHint == 2000

\* The description text of a row that has one.
Descriptions == {"d"}

\* Option<T>: Some(v) or None.
Some(v) == [some |-> TRUE, v |-> v]
NoneStr == [some |-> FALSE, v |-> ""]
NoneInt == [some |-> FALSE, v |-> 0]
OptDescriptions == {Some(d) : d \in Descriptions} \cup {NoneStr}
OptKeys(n) == {Some(k) : k \in 1..(n + 1)} \cup {NoneInt}

\* The empty HashMap.
EmptyMap == [k \in {} |-> <<>>]

\* The rows the three queries can return, ORDER BY primary key.
CustomerRecs ==
    UNION {{[k \in 1..n |-> [customer_id |-> k, description |-> d[k]]]
            : d \in [1..n -> OptDescriptions]}
           : n \in 0..MaxCust}
OrderRecs ==
    UNION {{[k \in 1..n |-> [order_id |-> k, order_description |-> d[k],
                             customer_id |-> c[k]]]
            : d \in [1..n -> OptDescriptions], c \in [1..n -> OptKeys(MaxCust)]}
           : n \in 0..MaxOrd}
ItemRecs ==
    UNION {{[k \in 1..n |-> [item_id |-> k, item_description |-> d[k],
                             order_id |-> o[k]]]
            : d \in [1..n -> OptDescriptions], o \in [1..n -> OptKeys(MaxOrd)]}
           : n \in 0..MaxItem}

(***************************************************************************)
(* Row conversion (fetch_all_customers, fetch_all_orders, fetch_all_items) *)
(***************************************************************************)

\* ItemRowPanic as unwrap_or_default() on the description.
ItemRowPanic_default(rec) ==
    IF ~rec.order_id.some THEN "null_foreign_key" ELSE "none"

\* What the unwrap()s of one row's struct literal panic on, "none" if on nothing;
\* the fields are evaluated in the order they are written.
CustomerRowPanic(rec) ==
    IF rec.description.some THEN "none" ELSE "null_description"
OrderRowPanic(rec) ==
    IF ~rec.order_description.some THEN "null_description"
    ELSE IF ~rec.customer_id.some THEN "null_foreign_key"
    ELSE "none"
ItemRowPanic(rec) ==
    IF ~rec.item_description.some THEN "null_description"
    ELSE IF ~rec.order_id.some THEN "null_foreign_key"
    ELSE "none"

\* The panic of the first row that has one: the loop converts the rows in order.
FirstPanic(causes) ==
    IF \A k \in 1..Len(causes) : causes[k] = "none" THEN "none"
    ELSE LET first == CHOOSE k \in 1..Len(causes) :
                          /\ causes[k] # "none"
                          /\ \A j \in 1..(k - 1) : causes[j] = "none"
         IN  causes[first]

CustomerFromRec(rec) ==
    [customer_id |-> rec.customer_id, description |-> rec.description.v,
     orders |-> <<>>]
OrderFromRec(rec) ==
    [order_id |-> rec.order_id, description |-> rec.order_description.v,
     customer_id |-> rec.customer_id.v, items |-> <<>>]
ItemFromRec(rec) ==
    [item_id |-> rec.item_id, description |-> rec.item_description.v,
     order_id |-> rec.order_id.v]

(***************************************************************************)
(* Grouping and enrichment                                                 *)
(***************************************************************************)

\* EntryPush as map.insert(key, vec![value]): a later child replaces the group.
EntryPush_insert(map, key, value) ==
    IF key \in DOMAIN map
    THEN [map EXCEPT ![key] = <<value>>]
    ELSE (key :> <<value>>) @@ map

\* map.entry(key).or_insert(Vec::new()).push(value)
EntryPush(map, key, value) ==
    IF key \in DOMAIN map
    THEN [map EXCEPT ![key] = Append(@, value)]
    ELSE (key :> <<value>>) @@ map

\* main.rs:63-66: for item in &items_list { ... push(item.clone()) }
RECURSIVE BuildItemsMap(_, _)
BuildItemsMap(list, n) ==
    IF n = 0 THEN EmptyMap
    ELSE EntryPush(BuildItemsMap(list, n - 1), list[n].order_id, list[n])

\* BuildOrdersMap over the orders as fetched, before their items were attached.
RECURSIVE BuildOrdersMap_raw(_, _)
BuildOrdersMap_raw(list, n) ==
    IF n = 0 THEN EmptyMap
    ELSE EntryPush(BuildOrdersMap_raw(list, n - 1), list[n].customer_id,
                   [list[n] EXCEPT !.items = <<>>])

\* main.rs:71-74: for order in &orders { ... push(order.clone()) }
RECURSIVE BuildOrdersMap(_, _)
BuildOrdersMap(list, n) ==
    IF n = 0 THEN EmptyMap
    ELSE EntryPush(BuildOrdersMap(list, n - 1), list[n].customer_id, list[n])

sort_data_orders(order, map) ==
    IF order.order_id \in DOMAIN map
    THEN [order EXCEPT !.items = map[order.order_id]]
    ELSE order

\* sort_data_customers with a fallback in place of the silent skip: a customer
\* whose id has no group takes some group of the map.
sort_data_customers_fallback(customer, map) ==
    IF customer.customer_id \in DOMAIN map
    THEN [customer EXCEPT !.orders = map[customer.customer_id]]
    ELSE IF DOMAIN map # {}
    THEN [customer EXCEPT !.orders = map[CHOOSE key \in DOMAIN map : TRUE]]
    ELSE customer

sort_data_customers(customer, map) ==
    IF customer.customer_id \in DOMAIN map
    THEN [customer EXCEPT !.orders = map[customer.customer_id]]
    ELSE customer

\* Collect with the results in reverse index order.
Collect_reversed(results, finished) ==
    [i \in 1..Len(finished) |-> results[Len(finished) + 1 - i]]

\* Collect with the results in the order the workers finished.
Collect_as_finished(results, finished) ==
    [i \in 1..Len(finished) |-> results[finished[i]]]

\* collect() of an indexed parallel iterator: the result of the element at index i
\* goes to index i, in whatever order the workers finished.
Collect(results, finished) == [i \in 1..Len(finished) |-> results[i]]

\* main.rs:63-76 as a function of the three fetched lists.
EnrichOrders(ol, il) ==
    LET map == BuildItemsMap(il, Len(il))
    IN  [i \in 1..Len(ol) |-> sort_data_orders(ol[i], map)]
EnrichCustomers(cl, os) ==
    LET map == BuildOrdersMap(os, Len(os))
    IN  [i \in 1..Len(cl) |-> sort_data_customers(cl[i], map)]
Denormalize(cl, ol, il) == EnrichCustomers(cl, EnrichOrders(ol, il))

(***************************************************************************)
(* Serialization and the bulk payload (bulk_insert_into_el)                *)
(***************************************************************************)

\* serde_json values.
JNumber(n) == [type |-> "number", n |-> n]
JString(str) == [type |-> "string", s |-> str]
JArray(elems) == [type |-> "array", elems |-> elems]
JObject(fields) == [type |-> "object", fields |-> fields]
JBool(b) == [type |-> "bool", b |-> b]
JNull == [type |-> "null"]
Field(key, value) == [k |-> key, v |-> value]

\* #[derive(Serialize)]: an object of the struct's fields, in declaration order.
ItemJson(item) ==
    JObject(<<Field("item_id", JNumber(item.item_id)),
              Field("description", JString(item.description)),
              Field("order_id", JNumber(item.order_id))>>)
OrderJson(order) ==
    JObject(<<Field("order_id", JNumber(order.order_id)),
              Field("description", JString(order.description)),
              Field("customer_id", JNumber(order.customer_id)),
              Field("items", JArray([i \in 1..Len(order.items) |->
                                        ItemJson(order.items[i])]))>>)
CustomerJson(customer) ==
    JObject(<<Field("customer_id", JNumber(customer.customer_id)),
              Field("description", JString(customer.description)),
              Field("orders", JArray([i \in 1..Len(customer.orders) |->
                                         OrderJson(customer.orders[i])]))>>)

\* json!({"index": {"_id": idx}})
IndexAction(idx) ==
    JObject(<<Field("index", JObject(<<Field("_id", JNumber(idx))>>))>>)

\* Vec::with_capacity and Vec::push: the capacity grows when the vector is full.
VecWithCapacity(size) == [cap |-> size, lines |-> <<>>]
VecPush(vec, line) ==
    [cap |-> IF Len(vec.lines) < vec.cap THEN vec.cap
             ELSE IF 2 * vec.cap > 4 THEN 2 * vec.cap ELSE 4,
     lines |-> Append(vec.lines, line)]

\* BulkBody with the document ids counted from 1.
RECURSIVE BulkBody_from_one(_, _, _)
BulkBody_from_one(data, size, n) ==
    IF n = 0 THEN VecWithCapacity(size)
    ELSE VecPush(VecPush(BulkBody_from_one(data, size, n - 1), IndexAction(n)),
                 CustomerJson(data[n]))

\* main.rs:109-114: the first n customers of data, enumerate() counting from 0.
RECURSIVE BulkBody(_, _, _)
BulkBody(data, size, n) ==
    IF n = 0 THEN VecWithCapacity(size)
    ELSE VecPush(VecPush(BulkBody(data, size, n - 1), IndexAction(n - 1)),
                 CustomerJson(data[n]))

\* response_body["errors"]: Null when the value is no object or has no such key.
JsonIndex(value, key) ==
    IF value.type = "object" /\ \E i \in 1..Len(value.fields) : value.fields[i].k = key
    THEN LET i == CHOOSE j \in 1..Len(value.fields) : value.fields[j].k = key
         IN  value.fields[i].v
    ELSE JNull

\* AsBool as as_bool().unwrap_or(false): no flag reads as no errors.
AsBool_lenient(value) == IF value.type = "bool" THEN Some(value.b) ELSE Some(FALSE)

\* Value::as_bool
AsBool(value) == IF value.type = "bool" THEN Some(value.b) ELSE [some |-> FALSE, v |-> FALSE]

\* What the destination can answer: the transport fails, the body is no JSON, or
\* the body is a JSON value, with or without "errors" and per-document details.
ItemsDetail(failed) ==
    JArray(<<JObject(<<Field("index",
             JObject(<<Field("status", JNumber(IF failed THEN 400 ELSE 201))>>))>>)>>)
ResponseBodies ==
    {JObject(<<Field("errors", JBool(e)), Field("items", ItemsDetail(f))>>)
        : e \in BOOLEAN, f \in BOOLEAN}
    \cup {JObject(<<Field("items", ItemsDetail(f))>>) : f \in BOOLEAN}
    \cup {JObject(<<Field("errors", JString("false"))>>), JArray(<<>>)}
Responses ==
    {[kind |-> "transport_error"], [kind |-> "not_json"]}
    \cup {[kind |-> "json", value |-> v] : v \in ResponseBodies}
NoResponse == [kind |-> "none"]

\* main.rs:116-127: how bulk_insert_into_el ends on a response, and what it prints.
BulkOutcome(r) ==
    IF r.kind = "transport_error"
    THEN [result |-> "Err", cause |-> "transport_error", printed |-> <<>>]
    ELSE IF r.kind = "not_json"
    THEN [result |-> "Err", cause |-> "malformed_response", printed |-> <<>>]
    ELSE LET flag == AsBool(JsonIndex(r.value, "errors"))
         IN  IF flag.some
             THEN [result |-> "Ok", cause |-> "none", printed |-> <<~flag.v>>]
             ELSE [result |-> "panic", cause |-> "missing_errors_flag", printed |-> <<>>]

\* Propagate with the Err of the bulk write dropped (let _ = ..).
Propagate_absorb(result) ==
    IF result = "panic" THEN "panic" ELSE "none"

\* main.rs:85: bulk_insert_into_el(..).await? returns the Err from main.
Propagate(result) ==
    IF result = "Ok" THEN "none" ELSE IF result = "Err" THEN "err" ELSE "panic"

(***************************************************************************)
(* main                                                                    *)
(***************************************************************************)

Init ==
    /\ pc = "start"
    /\ exit = "none"
    /\ abort = "none"
    /\ recs = <<>>
    /\ custs = "none"
    /\ ords = "none"
    /\ itms = "none"
    /\ customer_list = <<>>
    /\ order_list = <<>>
    /\ items_list = <<>>
    /\ items_map = EmptyMap
    /\ slots = EmptyMap
    /\ completion = <<>>
    /\ orders = <<>>
    /\ orders_map = EmptyMap
    /\ customers = <<>>
    /\ body = VecWithCapacity(0)
    /\ requests = <<>>
    /\ response = NoResponse
    /\ stdout = <<>>

\* main ends early: a panic unwinds, an Err is returned.
Abort(how, cause) ==
    /\ pc' = "aborted"
    /\ exit' = how
    /\ abort' = cause

\* main.rs:38-41: DATABASE_URL must be set (expect), the pool must connect (?).
Bootstrap ==
    /\ pc = "start"
    /\ \/ Abort("panic", "database_url_not_set")
       \/ Abort("err", "pool_error")
       \/ pc' = "fetch_customers" /\ UNCHANGED <<exit, abort>>
    /\ UNCHANGED <<recs, custs, ords, itms, customer_list, order_list, items_list,
                   items_map, slots, completion, orders, orders_map, customers,
                   body, requests, response, stdout>>

\* main.rs:43-47 with fetch_all_customers up to its query (main.rs:133-141).
QueryCustomers ==
    /\ pc = "fetch_customers"
    /\ \/ /\ custs' = "Err"
          /\ customer_list' = <<>>
          /\ pc' = "fetch_orders"
          /\ UNCHANGED recs
       \/ /\ \E rows \in CustomerRecs : recs' = rows
          /\ pc' = "convert_customers"
          /\ UNCHANGED <<custs, customer_list>>
    /\ UNCHANGED <<exit, abort, ords, itms, order_list, items_list, items_map,
                   slots, completion, orders, orders_map, customers, body,
                   requests, response, stdout>>

\* main.rs:143-152, then main.rs:44-47 on the Ok.
ConvertCustomers ==
    /\ pc = "convert_customers"
    /\ LET cause == FirstPanic([k \in 1..Len(recs) |-> CustomerRowPanic(recs[k])])
       IN  IF cause # "none"
           THEN /\ Abort("panic", cause)
                /\ recs' = <<>>
                /\ UNCHANGED <<custs, customer_list>>
           ELSE /\ customer_list' = [k \in 1..Len(recs) |-> CustomerFromRec(recs[k])]
                /\ custs' = "Ok"
                /\ recs' = <<>>
                /\ pc' = "fetch_orders"
                /\ UNCHANGED <<exit, abort>>
    /\ UNCHANGED <<ords, itms, order_list, items_list, items_map, slots,
                   completion, orders, orders_map, customers, body, requests,
                   response, stdout>>

\* main.rs:49-53 with fetch_all_orders up to its query (main.rs:158-166).
QueryOrders ==
    /\ pc = "fetch_orders"
    /\ \/ /\ ords' = "Err"
          /\ order_list' = <<>>
          /\ pc' = "fetch_items"
          /\ UNCHANGED recs
       \/ /\ \E rows \in OrderRecs : recs' = rows
          /\ pc' = "convert_orders"
          /\ UNCHANGED <<ords, order_list>>
    /\ UNCHANGED <<exit, abort, custs, itms, customer_list, items_list, items_map,
                   slots, completion, orders, orders_map, customers, body,
                   requests, response, stdout>>

\* main.rs:168-178, then main.rs:50-53 on the Ok.
ConvertOrders ==
    /\ pc = "convert_orders"
    /\ LET cause == FirstPanic([k \in 1..Len(recs) |-> OrderRowPanic(recs[k])])
       IN  IF cause # "none"
           THEN /\ Abort("panic", cause)
                /\ recs' = <<>>
                /\ UNCHANGED <<ords, order_list>>
           ELSE /\ order_list' = [k \in 1..Len(recs) |-> OrderFromRec(recs[k])]
                /\ ords' = "Ok"
                /\ recs' = <<>>
                /\ pc' = "fetch_items"
                /\ UNCHANGED <<exit, abort>>
    /\ UNCHANGED <<custs, itms, customer_list, items_list, items_map, slots,
                   completion, orders, orders_map, customers, body, requests,
                   response, stdout>>

\* main.rs:55-59 with fetch_all_items up to its query (main.rs:184-192).
QueryItems ==
    /\ pc = "fetch_items"
    /\ \/ /\ itms' = "Err"
          /\ items_list' = <<>>
          /\ pc' = "group_items"
          /\ UNCHANGED recs
       \/ /\ \E rows \in ItemRecs : recs' = rows
          /\ pc' = "convert_items"
          /\ UNCHANGED <<itms, items_list>>
    /\ UNCHANGED <<exit, abort, custs, ords, customer_list, order_list, items_map,
                   slots, completion, orders, orders_map, customers, body,
                   requests, response, stdout>>

\* main.rs:194-203, then main.rs:56-59 on the Ok.
ConvertItems ==
    /\ pc = "convert_items"
    /\ LET cause == FirstPanic([k \in 1..Len(recs) |-> ItemRowPanic(recs[k])])
       IN  IF cause # "none"
           THEN /\ Abort("panic", cause)
                /\ recs' = <<>>
                /\ UNCHANGED <<itms, items_list>>
           ELSE /\ items_list' = [k \in 1..Len(recs) |-> ItemFromRec(recs[k])]
                /\ itms' = "Ok"
                /\ recs' = <<>>
                /\ pc' = "group_items"
                /\ UNCHANGED <<exit, abort>>
    /\ UNCHANGED <<custs, ords, customer_list, order_list, items_map, slots,
                   completion, orders, orders_map, customers, body, requests,
                   response, stdout>>

\* main.rs:63-66.
GroupItems ==
    /\ pc = "group_items"
    /\ items_map' = BuildItemsMap(items_list, Len(items_list))
    /\ pc' = "par_orders"
    /\ UNCHANGED <<exit, abort, recs, custs, ords, itms, customer_list, order_list,
                   items_list, slots, completion, orders, orders_map, customers,
                   body, requests, response, stdout>>

\* main.rs:68, one element of order_list.par_iter().map(..): a worker takes any
\* element not yet mapped and writes its result.
OrderWorker(i) ==
    /\ pc = "par_orders"
    /\ i \in 1..Len(order_list)
    /\ i \notin DOMAIN slots
    /\ slots' = (i :> sort_data_orders(order_list[i], items_map)) @@ slots
    /\ completion' = Append(completion, i)
    /\ UNCHANGED <<pc, exit, abort, recs, custs, ords, itms, customer_list,
                   order_list, items_list, items_map, orders, orders_map,
                   customers, body, requests, response, stdout>>

\* main.rs:68, collect(): returns when every element is mapped.
CollectOrders ==
    /\ pc = "par_orders"
    /\ Len(completion) = Len(order_list)
    /\ orders' = Collect(slots, completion)
    /\ pc' = "group_orders"
    /\ UNCHANGED <<exit, abort, recs, custs, ords, itms, customer_list, order_list,
                   items_list, items_map, slots, completion, orders_map, customers,
                   body, requests, response, stdout>>

\* main.rs:71-74; the first parallel map's slots are gone.
GroupOrders ==
    /\ pc = "group_orders"
    /\ orders_map' = BuildOrdersMap(orders, Len(orders))
    /\ slots' = EmptyMap
    /\ completion' = <<>>
    /\ pc' = "par_customers"
    /\ UNCHANGED <<exit, abort, recs, custs, ords, itms, customer_list, order_list,
                   items_list, items_map, orders, customers, body, requests,
                   response, stdout>>

\* main.rs:76, one element of customer_list.par_iter().map(..).
CustomerWorker(i) ==
    /\ pc = "par_customers"
    /\ i \in 1..Len(customer_list)
    /\ i \notin DOMAIN slots
    /\ slots' = (i :> sort_data_customers(customer_list[i], orders_map)) @@ slots
    /\ completion' = Append(completion, i)
    /\ UNCHANGED <<pc, exit, abort, recs, custs, ords, itms, customer_list,
                   order_list, items_list, items_map, orders, orders_map,
                   customers, body, requests, response, stdout>>

\* main.rs:76, collect().
CollectCustomers ==
    /\ pc = "par_customers"
    /\ Len(completion) = Len(customer_list)
    /\ customers' = Collect(slots, completion)
    /\ pc' = "bulk_insert"
    /\ UNCHANGED <<exit, abort, recs, custs, ords, itms, customer_list, order_list,
                   items_list, items_map, slots, completion, orders, orders_map,
                   body, requests, response, stdout>>

\* main.rs:81-85 and 109-114: the client is made, ping() builds a request that is
\* never sent, and bulk_insert_into_el(&client, customers, 2000) builds its body.
BuildBody ==
    /\ pc = "bulk_insert"
    /\ body' = BulkBody(customers, BatchSizeHint, Len(customers))
    /\ slots' = EmptyMap
    /\ completion' = <<>>
    /\ pc' = "bulk_send"
    /\ UNCHANGED <<exit, abort, recs, custs, ords, itms, customer_list, order_list,
                   items_list, items_map, orders, orders_map, customers, requests,
                   response, stdout>>

\* main.rs:116-119: client.bulk(BulkParts::Index("customer")).body(body).send()
SendBulk ==
    /\ pc = "bulk_send"
    /\ requests' = Append(requests, [index |-> "customer", body |-> body.lines])
    /\ pc' = "bulk_await"
    /\ UNCHANGED <<exit, abort, recs, custs, ords, itms, customer_list, order_list,
                   items_list, items_map, slots, completion, orders, orders_map,
                   customers, body, response, stdout>>

\* BulkResponse with the request sent again after a transport error.
BulkResponse_retry ==
    /\ pc = "bulk_await"
    /\ \E r \in Responses :
          LET out == BulkOutcome(r)
              how == Propagate(out.result)
          IN  /\ response' = r
              /\ stdout' = stdout \o out.printed
              /\ IF how = "none"
                 THEN pc' = "bulk_returned" /\ UNCHANGED <<exit, abort>>
                 ELSE IF r.kind = "transport_error" /\ Len(requests) < 2
                 THEN pc' = "bulk_send" /\ UNCHANGED <<exit, abort>>
                 ELSE Abort(how, out.cause)
    /\ UNCHANGED <<recs, custs, ords, itms, customer_list, order_list, items_list,
                   items_map, slots, completion, orders, orders_map, customers,
                   body, requests>>

\* main.rs:120-127 and the ? of main.rs:85: the answer arrives and is handled.
BulkResponse ==
    /\ pc = "bulk_await"
    /\ \E r \in Responses :
          LET out == BulkOutcome(r)
              how == Propagate(out.result)
          IN  /\ response' = r
              /\ stdout' = stdout \o out.printed
              /\ IF how = "none"
                 THEN pc' = "bulk_returned" /\ UNCHANGED <<exit, abort>>
                 ELSE Abort(how, out.cause)
    /\ UNCHANGED <<recs, custs, ords, itms, customer_list, order_list, items_list,
                   items_map, slots, completion, orders, orders_map, customers,
                   body, requests>>

\* main.rs:87-89: Ok(()).
Finish ==
    /\ pc = "bulk_returned"
    /\ pc' = "done"
    /\ exit' = "ok"
    /\ UNCHANGED <<abort, recs, custs, ords, itms, customer_list, order_list,
                   items_list, items_map, slots, completion, orders, orders_map,
                   customers, body, requests, response, stdout>>

Next ==
    \/ Bootstrap
    \/ QueryCustomers
    \/ ConvertCustomers
    \/ QueryOrders
    \/ ConvertOrders
    \/ QueryItems
    \/ ConvertItems
    \/ GroupItems
    \/ \E i \in 1..MaxOrd : OrderWorker(i)
    \/ CollectOrders
    \/ GroupOrders
    \/ \E i \in 1..MaxCust : CustomerWorker(i)
    \/ CollectCustomers
    \/ BuildBody
    \/ SendBulk
    \/ BulkResponse
    \/ Finish

Spec == Init /\ [][Next]_vars

(***************************************************************************)
(* Properties                                                              *)
(*                                                                         *)
(* What a stage produced is stated of the state in which the stage has     *)
(* just ended: orders when collect() of main.rs:68 has returned            *)
(* (pc = "group_orders"), customers when collect() of main.rs:76 has       *)
(* returned (pc = "bulk_insert"), the payload when its loop has ended      *)
(* (pc = "bulk_send"), the request when it has been sent                   *)
(* (pc = "bulk_await").  C10_Deterministic shows that none of these is     *)
(* written again afterwards.                                               *)
(***************************************************************************)

\* The bulk request was sent (the run may have aborted on its answer).
Sent == Len(requests) > 0
\* main is past the collect() of main.rs:68.
OrdersDone ==
    \/ pc \in {"group_orders", "par_customers", "bulk_insert", "bulk_send",
               "bulk_await", "bulk_returned", "done"}
    \/ pc = "aborted" /\ Sent
\* main is past the collect() of main.rs:76.
CustomersDone ==
    \/ pc \in {"bulk_insert", "bulk_send", "bulk_await", "bulk_returned", "done"}
    \/ pc = "aborted" /\ Sent

\* The fetched items of order X, and the enriched orders of customer Y, in fetch order.
ItemsOf(X) == SelectSeq(items_list, LAMBDA it : it.order_id = X)
OrdersOf(Y) == SelectSeq(orders, LAMBDA o : o.customer_id = Y)
Elems(seq) == {seq[k] : k \in 1..Len(seq)}

\* C1: after order enrichment the items of every order X are exactly the fetched
\* items with order_id = X, each once and in fetch order (so none when there is no
\* such item), no order with another id holds any of them, and items_map has a
\* group for exactly the order ids that have an item.
C1_OrderItems ==
    pc = "group_orders" =>
        /\ Len(orders) = Len(order_list)
        /\ \A i \in 1..Len(orders) :
              /\ orders[i].order_id = order_list[i].order_id
              /\ orders[i].items = ItemsOf(orders[i].order_id)
              /\ \A k \in 1..Len(items_list) :
                    items_list[k].order_id # orders[i].order_id
                        => items_list[k] \notin Elems(orders[i].items)
        /\ DOMAIN items_map = {items_list[k].order_id : k \in 1..Len(items_list)}
        /\ \A X \in DOMAIN items_map : items_map[X] = ItemsOf(X)

\* C1 witness: one order got two items and another order got none.
C1_Witness ==
    /\ pc = "group_orders"
    /\ \E i, j \in 1..Len(orders) :
          Len(orders[i].items) = 2 /\ orders[j].items = <<>> /\ Len(items_list) = 2

\* C2: after customer enrichment the orders of every customer Y are exactly the
\* orders with customer_id = Y, each once and in fetch order (none when there is
\* no such order), each carrying the items order enrichment attached.
C2_CustomerOrders ==
    pc = "bulk_insert" =>
        /\ Len(customers) = Len(customer_list)
        /\ \A i \in 1..Len(customers) :
              /\ customers[i].customer_id = customer_list[i].customer_id
              /\ customers[i].orders = OrdersOf(customers[i].customer_id)
              /\ LET fetched == SelectSeq(order_list, LAMBDA o :
                                    o.customer_id = customers[i].customer_id)
                 IN  /\ Len(customers[i].orders) = Len(fetched)
                     /\ \A k \in 1..Len(fetched) :
                           customers[i].orders[k].order_id = fetched[k].order_id
              /\ \A k \in 1..Len(customers[i].orders) :
                    LET o == customers[i].orders[k]
                    IN  /\ o.customer_id = customers[i].customer_id
                        /\ o.items = ItemsOf(o.order_id)
                        /\ \E j \in 1..Len(order_list) :
                              /\ order_list[j].order_id = o.order_id
                              /\ order_list[j].customer_id = o.customer_id
                              /\ order_list[j].description = o.description

\* C2 witness: a customer got two orders, one of them with an item, and another
\* customer got none.
C2_Witness ==
    /\ pc = "bulk_insert"
    /\ \E i, j \in 1..Len(customers) :
          /\ Len(customers[i].orders) = 2
          /\ customers[i].orders[2].items # <<>>
          /\ customers[j].orders = <<>>

\* C4: in both parallel stages the output is as long as the input and its element
\* at index i is the enrichment of the input's element at index i, whatever order
\* the workers finished in; the customers come out in ascending customer_id order.
C4_IndexCorrespondence ==
    /\ pc = "group_orders" =>
          /\ Len(orders) = Len(order_list)
          /\ \A i \in 1..Len(orders) :
                /\ orders[i].order_id = order_list[i].order_id
                /\ orders[i].description = order_list[i].description
                /\ orders[i].customer_id = order_list[i].customer_id
                /\ orders[i] = sort_data_orders(order_list[i], items_map)
    /\ pc = "bulk_insert" =>
          /\ Len(customers) = Len(customer_list)
          /\ \A i \in 1..Len(customers) :
                /\ customers[i].customer_id = customer_list[i].customer_id
                /\ customers[i].description = customer_list[i].description
                /\ customers[i] = sort_data_customers(customer_list[i], orders_map)
          /\ \A i, j \in 1..Len(customers) :
                i < j => customers[i].customer_id < customers[j].customer_id

\* C4 witness: the customer workers finished in the reverse of the input order.
C4_Witness ==
    /\ pc = "bulk_insert"
    /\ Len(customers) = 2
    /\ completion = <<2, 1>>
    /\ Len(orders) = 2

\* The fetched rows whose foreign key is the key of no fetched parent.
CustomerIds == {customer_list[k].customer_id : k \in 1..Len(customer_list)}
OrderIds == {order_list[k].order_id : k \in 1..Len(order_list)}
OrphanOrder(o) == o.customer_id \notin CustomerIds
OrphanItem(it) == it.order_id \notin OrderIds
HasOrphan ==
    \/ \E o \in Elems(order_list) : OrphanOrder(o)
    \/ \E it \in Elems(items_list) : OrphanItem(it)
Identity(list) ==
    [k \in 1..Len(list) |-> <<list[k].customer_id, list[k].description>>]

\* C3: an order whose customer_id is the id of no fetched customer is in no
\* customer's orders and an item whose order_id is the id of no fetched order is in
\* no order's items; with such rows fetched no error ends the run before the bulk
\* request, and the customers come out as they would without those rows, with the
\* length, ids and descriptions of the fetched customer list.
C3_OrphansDropped ==
    /\ pc = "group_orders" =>
          \A it \in Elems(items_list) : OrphanItem(it) =>
              \A i \in 1..Len(orders) : it \notin Elems(orders[i].items)
    /\ pc = "bulk_insert" =>
          /\ \A o \in Elems(order_list) : OrphanOrder(o) =>
                \A i \in 1..Len(customers) : \A k \in 1..Len(customers[i].orders) :
                    customers[i].orders[k].order_id # o.order_id
          /\ \A it \in Elems(items_list) : OrphanItem(it) =>
                \A i \in 1..Len(customers) : \A k \in 1..Len(customers[i].orders) :
                    it \notin Elems(customers[i].orders[k].items)
          /\ customers = Denormalize(customer_list,
                            SelectSeq(order_list, LAMBDA o : ~OrphanOrder(o)),
                            SelectSeq(items_list, LAMBDA it : ~OrphanItem(it)))
          /\ Identity(customers) = Identity(customer_list)
    /\ pc \in {"group_items", "par_orders", "group_orders", "par_customers",
               "bulk_insert", "bulk_send"} => exit = "none" /\ abort = "none"
    /\ (pc = "aborted" /\ itms # "none") => Sent

\* C3 witness: an orphan order and an orphan item were fetched beside a customer
\* with an order of its own, and the customers are ready for the bulk write.
C3_Witness ==
    /\ pc = "bulk_insert"
    /\ \E o \in Elems(order_list) : OrphanOrder(o)
    /\ \E it \in Elems(items_list) : OrphanItem(it)
    /\ \E i \in 1..Len(customers) : customers[i].orders # <<>>

\* The serialized form of customer c, read field by field.
IsDocumentOf(line, c) ==
    /\ line.type = "object"
    /\ Len(line.fields) = 3
    /\ line.fields[1] = [k |-> "customer_id", v |-> [type |-> "number", n |-> c.customer_id]]
    /\ line.fields[2] = [k |-> "description", v |-> [type |-> "string", s |-> c.description]]
    /\ line.fields[3].k = "orders"
    /\ line.fields[3].v.type = "array"
    /\ LET os == line.fields[3].v.elems
       IN  /\ Len(os) = Len(c.orders)
           /\ \A j \in 1..Len(os) :
                 /\ os[j].fields[1] = [k |-> "order_id",
                                       v |-> [type |-> "number", n |-> c.orders[j].order_id]]
                 /\ os[j].fields[4].k = "items"
                 /\ LET is == os[j].fields[4].v.elems
                    IN  /\ Len(is) = Len(c.orders[j].items)
                        /\ \A m \in 1..Len(is) :
                              is[m].fields[1] = [k |-> "item_id",
                                  v |-> [type |-> "number", n |-> c.orders[j].items[m].item_id]]
IsIndexActionOf(line, id) ==
    line = [type |-> "object", fields |-> <<[k |-> "index", v |->
               [type |-> "object", fields |-> <<[k |-> "_id", v |->
                   [type |-> "number", n |-> id]]>>]]>>]

\* C5: for N customers the bulk payload has exactly 2*N entries; for every
\* zero-based position i entry 2*i is the index action with _id i and entry 2*i+1
\* is customer i serialized with its nested orders and items; no customers, no
\* entries.
C5_PayloadLayout ==
    pc = "bulk_send" =>
        /\ Len(body.lines) = 2 * Len(customers)
        /\ \A i \in 0..(Len(customers) - 1) :
              /\ IsIndexActionOf(body.lines[2 * i + 1], i)
              /\ IsDocumentOf(body.lines[2 * i + 2], customers[i + 1])
              /\ body.lines[2 * i + 2] = CustomerJson(customers[i + 1])
        /\ customers = <<>> => body.lines = <<>>

\* C5 witness: a payload of four entries whose second document nests an order
\* with an item.
C5_Witness ==
    /\ pc = "bulk_send"
    /\ Len(body.lines) = 4
    /\ Len(customers[2].orders) > 0
    /\ Len(customers[2].orders[1].items) > 0

\* The batch-size hints tried against the payload: below, at and above the
\* number of documents.
HintSizes == {0, 1, 2 * MaxCust, BatchSizeHint}

\* C6: a run that reaches the bulk indexer submits exactly one bulk request, to
\* the collection "customer", carrying every customer of the denormalized list,
\* whatever the batch-size hint is and also with more customers than the hint or
\* with none; there is never a second request.
C6_OneRequest ==
    /\ Len(requests) <= 1
    /\ pc \in {"bulk_insert", "bulk_send"} => requests = <<>>
    /\ (pc \in {"bulk_await", "bulk_returned", "done"} \/ response.kind # "none")
          => Len(requests) = 1
    /\ Sent =>
          /\ requests[1].index = "customer"
          /\ Len(requests[1].body) = 2 * Len(customers)
    /\ pc = "bulk_await" =>
          /\ \A i \in 1..Len(customers) :
                IsDocumentOf(requests[1].body[2 * i], customers[i])
          /\ \A size \in HintSizes :
                BulkBody(customers, size, Len(customers)).lines = requests[1].body

\* C6 witness: the one request was answered by a transport error and the run
\* ended with two customers sent and no second request.
C6_Witness ==
    /\ pc = "aborted"
    /\ response.kind = "transport_error"
    /\ Len(requests) = 1
    /\ Len(requests[1].body) = 4

\* The response is a JSON object with a top-level boolean "errors" equal to b.
ErrorsFlagIs(b) ==
    /\ response.kind = "json"
    /\ response.value.type = "object"
    /\ \E i \in 1..Len(response.value.fields) :
          response.value.fields[i] = [k |-> "errors", v |-> [type |-> "bool", b |-> b]]
Answered == response.kind # "none"

\* C7: the outcome of the bulk write depends only on the top-level "errors" of the
\* response: errors = false prints true, errors = true prints false, and a response
\* without a boolean "errors" (or a transport failure or a body that is no JSON)
\* aborts the run with nothing printed; per-document details change nothing.
C7_ErrorsFlagDecides ==
    /\ ~Answered => stdout = <<>>
    /\ (Answered /\ ErrorsFlagIs(FALSE)) =>
          stdout = <<TRUE>> /\ pc \in {"bulk_returned", "done"} /\ abort = "none"
    /\ (Answered /\ ErrorsFlagIs(TRUE)) =>
          stdout = <<FALSE>> /\ pc \in {"bulk_returned", "done"} /\ abort = "none"
    /\ (Answered /\ ~ErrorsFlagIs(TRUE) /\ ~ErrorsFlagIs(FALSE)) =>
          stdout = <<>> /\ pc = "aborted" /\ exit \in {"err", "panic"}

\* C7 witness: a response with errors = false and a failed document printed true
\* and the run ended normally.
C7_Witness ==
    /\ pc = "done"
    /\ ErrorsFlagIs(FALSE)
    /\ \E i \in 1..Len(response.value.fields) :
          response.value.fields[i] = Field("items", ItemsDetail(TRUE))
    /\ stdout = <<TRUE>>

\* C8: an Err of any of the three fetches is absorbed: that list is empty, the
\* next fetch and every later stage still run, and a fetch error is never what
\* ends the run; an Err of the bulk write (transport failure, body that is no
\* JSON) is never absorbed: main returns it as the run's error.
C8_FetchAbsorbedWriteFatal ==
    /\ custs = "Err" => customer_list = <<>> /\ pc # "fetch_customers"
    /\ ords = "Err" => order_list = <<>> /\ pc # "fetch_orders"
    /\ itms = "Err" => items_list = <<>> /\ pc # "fetch_items"
    /\ (custs = "Err" /\ pc = "fetch_orders") => ENABLED QueryOrders
    /\ (ords = "Err" /\ pc = "fetch_items") => ENABLED QueryItems
    /\ (itms = "Err" /\ pc = "group_items") => ENABLED GroupItems
    /\ pc \notin {"aborted", "done"} => exit = "none" /\ abort = "none"
    /\ (pc = "aborted" /\ ~Sent) =>
          abort \in {"database_url_not_set", "pool_error", "null_description",
                     "null_foreign_key"}
    /\ response.kind = "transport_error" =>
          pc = "aborted" /\ exit = "err" /\ abort = "transport_error"
    /\ response.kind = "not_json" =>
          pc = "aborted" /\ exit = "err" /\ abort = "malformed_response"
    /\ exit = "ok" => response.kind = "json" /\ abort = "none"

\* C8 witness: the customer fetch failed, the order and item fetches returned
\* their rows, the bulk request went out and its transport failure ended the run.
C8_Witness ==
    /\ custs = "Err"
    /\ ords = "Ok" /\ Len(order_list) = 2
    /\ itms = "Ok" /\ Len(items_list) = 2
    /\ Sent
    /\ response.kind = "transport_error"
    /\ exit = "err"

\* A fetch is converting rows of which one has a null description.
ConvertingNullDescription ==
    \/ pc = "convert_customers" /\ \E k \in 1..Len(recs) : ~recs[k].description.some
    \/ pc = "convert_orders" /\ \E k \in 1..Len(recs) : ~recs[k].order_description.some
    \/ pc = "convert_items" /\ \E k \in 1..Len(recs) : ~recs[k].item_description.some

\* C9: a fetched row with a null description aborts the run at row conversion: the
\* conversion panics, the rows are not absorbed into a list (empty or not), no
\* later stage runs and no bulk request is ever submitted.
C9_NullDescriptionFatal ==
    /\ [][ConvertingNullDescription =>
            /\ pc' = "aborted" /\ exit' = "panic"
            /\ abort' \in {"null_description", "null_foreign_key"}
            /\ UNCHANGED <<custs, ords, itms, customer_list, order_list, items_list,
                           items_map, orders, orders_map, customers, requests>>]_vars
    /\ [][pc # "aborted"]_vars
    /\ [](abort = "null_description" =>
            /\ pc = "aborted" /\ exit = "panic"
            /\ itms = "none" /\ items_list = <<>>
            /\ items_map = EmptyMap /\ orders = <<>> /\ orders_map = EmptyMap
            /\ customers = <<>> /\ requests = <<>> /\ response = NoResponse)

\* C9 witness: customers and orders were fetched with their rows, an item row had
\* a null description, and the run has aborted on it with nothing sent.
C9_Witness ==
    /\ pc = "aborted"
    /\ abort = "null_description"
    /\ custs = "Ok" /\ Len(customer_list) = 2
    /\ ords = "Ok" /\ Len(order_list) = 2
    /\ itms = "none"
    /\ requests = <<>>

\* The nested customers as a function of the three fetched lists alone.
RefOrder(o) == [o EXCEPT !.items = ItemsOf(o.order_id)]
RefCustomer(c) ==
    LET fetched == SelectSeq(order_list, LAMBDA o : o.customer_id = c.customer_id)
    IN  [c EXCEPT !.orders = [k \in 1..Len(fetched) |-> RefOrder(fetched[k])]]

\* C10: denormalization is deterministic: under every completion order of the
\* workers the enriched orders and the nested customers are the same function of
\* the fetched lists, and the enrichment leaves the fetched lists, and each
\* grouping while a parallel stage reads it, unchanged.
C10_Deterministic ==
    /\ [](OrdersDone =>
            orders = [i \in 1..Len(order_list) |-> RefOrder(order_list[i])])
    /\ [](CustomersDone =>
            customers = [i \in 1..Len(customer_list) |-> RefCustomer(customer_list[i])])
    /\ [][itms # "none" => UNCHANGED <<customer_list, order_list, items_list>>]_vars
    /\ [][OrdersDone => UNCHANGED <<orders, items_map>>]_vars
    /\ [][CustomersDone => UNCHANGED <<customers, orders_map>>]_vars
    /\ [][pc = "par_orders" => UNCHANGED items_map]_vars
    /\ [][pc = "par_customers" => UNCHANGED <<items_map, orders_map, orders>>]_vars

\* C10 witness: the workers of the customer stage finished last-first and the
\* first customer still holds its order with that order's item.
C10_Witness ==
    /\ pc = "bulk_insert"
    /\ completion = <<2, 1>>
    /\ Len(customers) = 2
    /\ customers[1].orders # <<>>
    /\ customers[1].orders[1].items # <<>>

====
